---- MODULE Spec2Model ----
(***************************************************************************)
(* A model of the incremental idiom-extraction pipeline:                   *)
(*   db_manager.py   the MySQL state store (tables videos, idioms_stats)   *)
(*                   and the fingerprint registry (sync_folder)            *)
(*   pipeline.py     the orchestrator (run_full_pipeline and the four      *)
(*                   stage loops)                                          *)
(*   audio_extractor.py, stt_engine.py, llm_processor.py,                  *)
(*   video_processor.py   the four stage processors, modelled by what they *)
(*                   return, raise and leave on disk                       *)
(* Python's None / SQL NULL is the empty tuple <<>>; artifact locators are *)
(* non-empty tuples <<directory, file name>>.                              *)
(***************************************************************************)
EXTENDS Integers, Sequences, FiniteSets, TLC

\* ------------------------------------------------------------------ bounds
\* run_full_pipeline invocations in one behaviour (each starts at a later
\* clock reading than the one before).
MaxRuns == 2
\* Disturbances in one behaviour: a step in which something fails (a stage
\* processor, a store operation, a file read), a killed run, or a change made
\* to the watched directory.
MaxEvents == 1
\* Source files the watched directory and the store know of at one time.
MaxFiles == 2
\* Segments in a transcript returned by the transcription engine.
MaxSegments == 3
\* LLMProcessor.batch_size (15 in the source), scaled so that a transcript
\* of MaxSegments segments spans more than one batch.
BatchSize == 2

\* ------------------------------------------------------------ the file tree
\* Source files under data/raw_video. Two of them share a base name.
Paths == {"d1/ep1.mp4", "d2/ep1.mp4", "d1/ep2.mp4"}

\* os.path.basename
Basename(p) ==
    CASE p = "d1/ep1.mp4" -> "ep1.mp4"
      [] p = "d2/ep1.mp4" -> "ep1.mp4"
      [] p = "d1/ep2.mp4" -> "ep2.mp4"

\* os.path.splitext(os.path.basename(p))[0]
Stem(p) ==
    CASE Basename(p) = "ep1.mp4" -> "ep1"
      [] Basename(p) = "ep2.mp4" -> "ep2"

\* The bytes a source file may hold.
Contents == {"v1", "v2"}
Absent == "absent"

\* hashlib.md5 of a file's bytes: distinct contents, distinct digests.
Md5(c) ==
    CASE c = "v1" -> "md5-v1"
      [] c = "v2" -> "md5-v2"

Hashes == {Md5(c) : c \in Contents}

None == <<>>

\* ------------------------------------------------------------------- state
VARIABLES
    files,         \* watched directory: path -> contents, or Absent
    audio_cache,   \* audio_cache/<stem>.wav -> <<>> or <<bytes of the video it was cut from>>
    transcripts,   \* transcripts/<stem>.wav.json -> <<>> or <<number of segments>>
    idiom_files,   \* filtered_idioms/<basename>.json -> <<>> or <<list of idioms>>
    videos,        \* table videos: a set of rows
    idioms_stats,  \* table idioms_stats: a set of rows
    now,           \* datetime.now(), in clock ticks
    runs,          \* run_full_pipeline invocations so far
    crashes,       \* aborted runs so far
    faults,        \* failing steps so far
    edits,         \* changes to the watched directory so far
    budget,        \* the disturbances this behaviour may see
    api,           \* the last direct call of a store operation: arguments, table before
    orch           \* per orchestrator process: its position and locals

vars == <<files, audio_cache, transcripts, idiom_files, videos, idioms_stats,
          now, runs, crashes, faults, edits, budget, api, orch>>

Orchestrators == {1, 2}

Stems == {Stem(p) : p \in Paths}
Basenames == {Basename(p) : p \in Paths}

\* audio_extractor.py: output_path = audio_cache/<stem>.wav
AudioPath(p) == <<"audio_cache", Stem(p)>>
\* pipeline.py: transcripts/<basename(audio_path)>.json
TranscriptPath(audio_path) == <<"transcripts", audio_path[2]>>
\* pipeline.py: filtered_idioms/<basename(path)>.json
IdiomsPath(p) == <<"filtered_idioms", Basename(p)>>

\* The status values, in stage order.
StatusOrder == <<"pending", "audio_extracted", "stt_done", "llm_done", "completed">>
Rank(s) == CHOOSE i \in 1..Len(StatusOrder) : StatusOrder[i] = s

\* ---------------------------------------------------------- the state store
\* SELECT ... FROM videos WHERE file_path = p
RowsOf(tbl, p) == {r \in tbl : r.file_path = p}

\* AUTO_INCREMENT primary key (no row is ever deleted)
NextId(tbl) == Cardinality(tbl) + 1

\* DBManager.get_file_hash: "" for a missing or unreadable file
get_file_hash(fs, p, readable) ==
    IF fs[p] = Absent THEN ""
    ELSE IF readable THEN Md5(fs[p]) ELSE ""

\* A registry that refreshes the fingerprint of a changed file and leaves the
\* row's status where it was.
register_video_keepstatus(tbl, reg, t) ==
    IF reg.found
    THEN IF reg.row_hash # reg.hash
         THEN {IF r.id = reg.id
               THEN [r EXCEPT !.file_hash = reg.hash, !.last_updated = t]
               ELSE r : r \in tbl}
         ELSE tbl
    ELSE IF RowsOf(tbl, reg.path) # {}
         THEN tbl
         ELSE tbl \cup {[id |-> NextId(tbl), file_path |-> reg.path,
                         file_hash |-> reg.hash, status |-> "pending",
                         last_updated |-> t, audio_path |-> None,
                         transcript_path |-> None, idioms_path |-> None]}

\* A registry whose reset also clears the artifact locators.
register_video_clear(tbl, reg, t) ==
    IF reg.found
    THEN IF reg.row_hash # reg.hash
         THEN {IF r.id = reg.id
               THEN [r EXCEPT !.file_hash = reg.hash, !.status = "pending",
                              !.last_updated = t, !.audio_path = None,
                              !.transcript_path = None, !.idioms_path = None]
               ELSE r : r \in tbl}
         ELSE tbl
    ELSE IF RowsOf(tbl, reg.path) # {}
         THEN tbl
         ELSE tbl \cup {[id |-> NextId(tbl), file_path |-> reg.path,
                         file_hash |-> reg.hash, status |-> "pending",
                         last_updated |-> t, audio_path |-> None,
                         transcript_path |-> None, idioms_path |-> None]}

\* A registry that issues its UPDATE for every file it finds a row for,
\* changed or not.
register_video_always(tbl, reg, t) ==
    IF reg.found
    THEN {IF r.id = reg.id
          THEN [r EXCEPT !.file_hash = reg.hash, !.status = "pending",
                         !.last_updated = t]
          ELSE r : r \in tbl}
    ELSE IF RowsOf(tbl, reg.path) # {}
         THEN tbl
         ELSE tbl \cup {[id |-> NextId(tbl), file_path |-> reg.path,
                         file_hash |-> reg.hash, status |-> "pending",
                         last_updated |-> t, audio_path |-> None,
                         transcript_path |-> None, idioms_path |-> None]}

\* A registry on a table whose file_path column has no UNIQUE key: the
\* INSERT of a path that has a row by now is taken.
register_video_nounique(tbl, reg, t) ==
    IF reg.found
    THEN IF reg.row_hash # reg.hash
         THEN {IF r.id = reg.id
               THEN [r EXCEPT !.file_hash = reg.hash, !.status = "pending",
                              !.last_updated = t]
               ELSE r : r \in tbl}
         ELSE tbl
    ELSE tbl \cup {[id |-> NextId(tbl), file_path |-> reg.path,
                    file_hash |-> reg.hash, status |-> "pending",
                    last_updated |-> t, audio_path |-> None,
                    transcript_path |-> None, idioms_path |-> None]}

\* register_video, the write that follows the SELECT: reg is what the SELECT
\* returned ([found, id, file_hash]) and the digest just computed.
register_video(tbl, reg, t) ==
    IF reg.found
    THEN IF reg.row_hash # reg.hash
         THEN {IF r.id = reg.id
               THEN [r EXCEPT !.file_hash = reg.hash, !.status = "pending",
                              !.last_updated = t]
               ELSE r : r \in tbl}
         ELSE tbl
    ELSE IF RowsOf(tbl, reg.path) # {}
         THEN tbl    \* file_path is UNIQUE: the INSERT is rejected
         ELSE tbl \cup {[id |-> NextId(tbl), file_path |-> reg.path,
                         file_hash |-> reg.hash, status |-> "pending",
                         last_updated |-> t, audio_path |-> None,
                         transcript_path |-> None, idioms_path |-> None]}

\* update_video_status(file_path, status, **kwargs): kwargs is a function
\* from field names to values; only the three allowed fields are written.
AllowedFields == {"audio_path", "transcript_path", "idioms_path"}

\* A SET clause of status and timestamp alone.
SetFields_statusonly(r, status, kwargs, t) ==
    [f \in DOMAIN r |->
        IF f = "status" THEN status
        ELSE IF f = "last_updated" THEN t
        ELSE r[f]]

\* A SET clause built from every keyword supplied, allowed or not.
SetFields_anyfield(r, status, kwargs, t) ==
    [f \in DOMAIN r |->
        IF f = "status" THEN status
        ELSE IF f = "last_updated" THEN t
        ELSE IF f \in DOMAIN kwargs THEN kwargs[f]
        ELSE r[f]]

SetFields(r, status, kwargs, t) ==
    [f \in DOMAIN r |->
        IF f = "status" THEN status
        ELSE IF f = "last_updated" THEN t
        ELSE IF f \in AllowedFields /\ f \in DOMAIN kwargs THEN kwargs[f]
        ELSE r[f]]

\* An UPDATE that lost its WHERE clause.
update_video_status_nowhere(tbl, p, status, kwargs, t) ==
    {SetFields(r, status, kwargs, t) : r \in tbl}

update_video_status(tbl, p, status, kwargs, t) ==
    {IF r.file_path = p THEN SetFields(r, status, kwargs, t) ELSE r : r \in tbl}

\* A SELECT ... FOR UPDATE SKIP LOCKED kept open while the stage works: the
\* rows another run has listed and not yet finished are left out.
get_videos_by_status_claimed(tbl, status) ==
    {r \in tbl : /\ r.status = status
                 /\ \A o \in {1, 2} : \A i \in DOMAIN orch[o].queue :
                       orch[o].queue[i].file_path # r.file_path}

\* A SELECT that lost its WHERE clause.
get_videos_by_status_any(tbl, status) == tbl

\* A SELECT that also returns the rows a stage has already been through.
get_videos_by_status_upto(tbl, status) ==
    {r \in tbl : Rank(r.status) >= Rank(status) /\ r.status # "completed"}

\* get_videos_by_status: the rows at a status (the caller fixes an order)
get_videos_by_status(tbl, status) == {r \in tbl : r.status = status}

\* add_idiom_record: INSERT ... ON DUPLICATE KEY UPDATE clip_path
SameKey(r, word, source, start) ==
    r.word = word /\ r.source_video = source /\ r.timestamp_start = start

\* A unique key on (word, source_video) alone.
add_idiom_record_wordkey(tbl, word, source, start, end, clip, t) ==
    IF \E r \in tbl : r.word = word /\ r.source_video = source
    THEN {IF r.word = word /\ r.source_video = source
          THEN [r EXCEPT !.clip_path = clip] ELSE r : r \in tbl}
    ELSE tbl \cup {[id |-> NextId(tbl), word |-> word, source_video |-> source,
                    timestamp_start |-> start, timestamp_end |-> end,
                    clip_path |-> clip, created_at |-> t]}

\* ON DUPLICATE KEY UPDATE of every column (a REPLACE).
add_idiom_record_replace(tbl, word, source, start, end, clip, t) ==
    IF \E r \in tbl : SameKey(r, word, source, start)
    THEN {IF SameKey(r, word, source, start)
          THEN [r EXCEPT !.clip_path = clip, !.timestamp_end = end, !.created_at = t]
          ELSE r : r \in tbl}
    ELSE tbl \cup {[id |-> NextId(tbl), word |-> word, source_video |-> source,
                    timestamp_start |-> start, timestamp_end |-> end,
                    clip_path |-> clip, created_at |-> t]}

add_idiom_record(tbl, word, source, start, end, clip, t) ==
    IF \E r \in tbl : SameKey(r, word, source, start)
    THEN {IF SameKey(r, word, source, start)
          THEN [r EXCEPT !.clip_path = clip] ELSE r : r \in tbl}
    ELSE tbl \cup {[id |-> NextId(tbl), word |-> word, source_video |-> source,
                    timestamp_start |-> start, timestamp_end |-> end,
                    clip_path |-> clip, created_at |-> t]}

\* An ORDER BY freq without DESC.
get_idiom_stats_asc(tbl) ==
    LET groups == {[word |-> w, freq |-> Cardinality({r \in tbl : r.word = w})] :
                      w \in {r.word : r \in tbl}}
    IN {q \in [1..Cardinality(groups) -> groups] :
          /\ \A i, j \in DOMAIN q : i # j => q[i] # q[j]
          /\ \A i, j \in DOMAIN q : i < j => q[i].freq <= q[j].freq}

\* get_idiom_stats: SELECT word, COUNT(*) as freq ... GROUP BY word ORDER BY
\* freq DESC; the lists the query may return (words of equal freq come in
\* any order).
get_idiom_stats(tbl) ==
    LET groups == {[word |-> w, freq |-> Cardinality({r \in tbl : r.word = w})] :
                      w \in {r.word : r \in tbl}}
    IN {q \in [1..Cardinality(groups) -> groups] :
          /\ \A i, j \in DOMAIN q : i # j => q[i] # q[j]
          /\ \A i, j \in DOMAIN q : i < j => q[i].freq >= q[j].freq}

\* All orders in which a SELECT without ORDER BY may return a set of rows.
Orders(S) == {q \in [1..Cardinality(S) -> S] : \A i, j \in DOMAIN q : i # j => q[i] # q[j]}


\* ------------------------------------------------------ the stage processors
\* An extractor that reports an existing output as a failure instead of
\* returning its locator.
extract_noskip(fs, cache, p, decoded) ==
    IF fs[p] = Absent THEN [ret |-> None, cache |-> cache]
    ELSE IF cache[<<"audio_cache", Stem(p)>>] # None
         THEN [ret |-> None, cache |-> cache]
    ELSE IF decoded
         THEN [ret |-> <<"audio_cache", Stem(p)>>,
               cache |-> [cache EXCEPT ![<<"audio_cache", Stem(p)>>] = <<fs[p]>>]]
    ELSE [ret |-> None, cache |-> cache]

\* AudioExtractor.extract: the locator returned (None for a failure) and the
\* audio cache it leaves. decoded: whether MoviePy/ffmpeg succeed.
extract(fs, cache, p, decoded) ==
    IF fs[p] = Absent THEN [ret |-> None, cache |-> cache]
    ELSE IF cache[AudioPath(p)] # None
         THEN [ret |-> AudioPath(p), cache |-> cache]     \* skip_existing
    ELSE IF decoded
         THEN [ret |-> AudioPath(p),
               cache |-> [cache EXCEPT ![AudioPath(p)] = <<fs[p]>>]]
    ELSE [ret |-> None, cache |-> cache]

\* STTEngine.transcribe: raises when the audio cannot be loaded or the model
\* fails; otherwise a result of n segments.
transcribe(cache, audio_path, modelOk, n) ==
    IF audio_path = None \/ cache[audio_path] = None \/ ~modelOk
    THEN [raised |-> TRUE, segments |-> 0]
    ELSE [raised |-> FALSE, segments |-> n]

\* STTEngine.save_results: writes the file, or logs the error and returns.
save_results(disk, result, output_path, written) ==
    IF written THEN [disk EXCEPT ![output_path] = <<result>>] ELSE disk

\* The segment list of a transcript of n segments: segment i (from 0) runs
\* from second 2i to second 2i+1. Python index i is TLA+ index i+1.
Segments(n) == [i \in 1..n |-> [start |-> 2 * (i - 1), end |-> 2 * (i - 1) + 1]]

\* The labels the language model may answer with.
Words == {"w1", "w2"}

\* A filter on the index that accepts any segment of the transcript, of this
\* batch or another.
RECURSIVE AttachBatch_anysegment(_, _, _, _)
AttachBatch_anysegment(segments, i, len, items) ==
    IF items = <<>> THEN <<>>
    ELSE LET idiom == Head(items)
             idx == idiom.index
             rest == AttachBatch_anysegment(segments, i, len, Tail(items))
         IN IF idx # None /\ 0 <= idx[1] /\ idx[1] < Len(segments)
            THEN <<[word |-> idiom.word, index |-> idx[1],
                    start |-> segments[idx[1] + 1].start,
                    end |-> segments[idx[1] + 1].end,
                    clip_path |-> None]>> \o rest
            ELSE rest

\* One batch of LLMProcessor.process_segments: i is the batch's first index,
\* len its length, items the parsed JSON list ([word, index], index None or
\* <<number>>). Keeps the items whose index lies in the batch and attaches the
\* segment's start and end.
RECURSIVE AttachBatch(_, _, _, _)
AttachBatch(segments, i, len, items) ==
    IF items = <<>> THEN <<>>
    ELSE LET idiom == Head(items)
             idx == idiom.index
             rest == AttachBatch(segments, i, len, Tail(items))
         IN IF idx # None /\ i <= idx[1] /\ idx[1] < i + len
            THEN <<[word |-> idiom.word, index |-> idx[1],
                    start |-> segments[idx[1] + 1].start,
                    end |-> segments[idx[1] + 1].end,
                    clip_path |-> None]>> \o rest
            ELSE rest

BatchLen(n, i) == IF i + BatchSize <= n THEN BatchSize ELSE n - i

\* LLMProcessor.process_segments: batches of BatchSize from index i on; the
\* b-th answer of the model is answers[b] ([ok, items]); a batch whose call
\* or JSON parse fails is logged and skipped.
RECURSIVE ProcessFrom(_, _, _, _)
ProcessFrom(segments, i, answers, b) ==
    IF i >= Len(segments) THEN <<>>
    ELSE (IF answers[b].ok
          THEN AttachBatch(segments, i, BatchLen(Len(segments), i), answers[b].items)
          ELSE <<>>)
         \o ProcessFrom(segments, i + BatchSize, answers, b + 1)

process_segments(segments, answers) == ProcessFrom(segments, 0, answers, 1)

NumBatches(n) == (n + BatchSize - 1) \div BatchSize

\* LLMProcessor.save_idioms: writes the file, or logs the error and returns.
save_idioms(disk, idioms, output_path, written) ==
    IF written THEN [disk EXCEPT ![output_path] = <<idioms>>] ELSE disk

\* video_processor.py: start = max(0, idiom.start - padding_start) and the
\* "<int(start)>s" part of the clip's name (padding_start = 0.5).
ClipSecond(start) == IF start > 0 THEN start - 1 ELSE 0

ClipPath(word, p, start) == <<"output_clips", word, Stem(p), ClipSecond(start)>>

\* VideoProcessor.process_idioms: the list with clip_path set on the first k
\* idioms, k being the number of clips written before an exception ended the
\* loop (k = Len(idioms): none did).
process_idioms(p, idioms, k) ==
    [j \in 1..Len(idioms) |->
        IF j <= k
        THEN [idioms[j] EXCEPT !.clip_path = ClipPath(idioms[j].word, p, idioms[j].start)]
        ELSE idioms[j]]

\* How many clips process_idioms may have written: none for an empty list or
\* a video that cannot be opened, otherwise any prefix when failures may occur.
RenderCounts(fs, p, idioms, Oks) ==
    IF idioms = <<>> \/ fs[p] = Absent THEN {0}
    ELSE IF FALSE \in Oks THEN 0..Len(idioms) ELSE {Len(idioms)}

\* The clips process_idioms writes when nothing fails.
FullRender(fs, p, idioms) == IF fs[p] = Absent THEN 0 ELSE Len(idioms)

\* ------------------------------------------------------- orchestrator state
NoReg == [path |-> "", hash |-> "", found |-> FALSE, id |-> 0,
          row_hash |-> "", row_status |-> ""]

IdleOrch == [pc |-> "idle", scan |-> <<>>, reg |-> NoReg, queue |-> <<>>,
             art |-> None, work |-> <<>>, next |-> 0, log |-> <<>>,
             lookups |-> {}, listed |-> {}, start |-> {}, start_stats |-> {}]

Ev(op, p, res) == [op |-> op, path |-> p, res |-> res]

NoCall == [op |-> "none", n |-> 0, ok |-> TRUE, word |-> "", source |-> "",
           start |-> 0, end |-> 0, clip |-> None, path |-> "", status |-> "",
           kw |-> 0, before |-> {}, result |-> <<>>,
           segments |-> <<>>, answers |-> <<>>]

\* The watched directory holds at most MaxFiles files when the model starts;
\* the store and the artifact directories are empty; b disturbances may occur;
\* the orchestrators in on may start runs.
Start(b, on) ==
    /\ files \in {f \in [Paths -> {Absent, "v1"}] :
                    Cardinality({p \in Paths : f[p] # Absent}) <= MaxFiles}
    /\ audio_cache = [a \in {AudioPath(p) : p \in Paths} |-> None]
    /\ transcripts = [a \in {TranscriptPath(AudioPath(p)) : p \in Paths} |-> None]
    /\ idiom_files = [a \in {IdiomsPath(p) : p \in Paths} |-> None]
    /\ videos = {}
    /\ idioms_stats = {}
    /\ now = 0
    /\ runs = 0
    /\ crashes = 0
    /\ faults = 0
    /\ edits = 0
    /\ budget = b
    /\ api = NoCall
    /\ orch = [o \in Orchestrators |->
                 IF o \in on THEN IdleOrch ELSE [IdleOrch EXCEPT !.pc = "off"]]

Init == Start(MaxEvents, {1})

\* The disturbances so far.
Spent == faults + crashes + edits

\* The outcomes a step may draw: failures (FALSE) only from the set F the
\* specification allows and while the behaviour's budget lasts.
Oks(F) == IF Spent < budget THEN F \cup {TRUE} ELSE {TRUE}

\* A step that drew a failure uses one unit of the budget.
Charge(failed) == faults' = IF failed THEN faults + 1 ELSE faults

\* ------------------------------------------------------------ environment
\* The file is in the watched directory or has a row in the store.
Known(p) == files[p] # Absent \/ RowsOf(videos, p) # {}

\* A file is dropped into the watched directory, or its bytes change.
FileWrite ==
    \E p \in Paths, c \in Contents :
        /\ Spent < budget
        /\ files[p] # c
        /\ Known(p) \/ Cardinality({q \in Paths : Known(q)}) < MaxFiles
        /\ files' = [files EXCEPT ![p] = c]
        /\ edits' = edits + 1
        /\ UNCHANGED <<api, budget, audio_cache, transcripts, idiom_files, videos,
                       idioms_stats, now, runs, crashes, faults, orch>>

\* A file disappears from the watched directory.
FileDelete ==
    \E p \in Paths :
        /\ Spent < budget
        /\ files[p] # Absent
        /\ files' = [files EXCEPT ![p] = Absent]
        /\ edits' = edits + 1
        /\ UNCHANGED <<api, budget, audio_cache, transcripts, idiom_files, videos,
                       idioms_stats, now, runs, crashes, faults, orch>>

\* ------------------------------------------------------- run_full_pipeline
\* The call starts: sync_folder walks the directory.
StartRun(o) ==
    /\ orch[o].pc \in {"idle", "done"}
    /\ runs < MaxRuns
    /\ \E scan \in Orders({p \in Paths : files[p] # Absent}) :
          orch' = [orch EXCEPT ![o] =
                      [IdleOrch EXCEPT !.pc = "sync", !.scan = scan,
                                       !.listed = {scan[i] : i \in DOMAIN scan},
                                       !.start = videos, !.start_stats = idioms_stats]]
    /\ runs' = runs + 1
    /\ now' = now + 1
    /\ UNCHANGED <<api, budget, files, audio_cache, transcripts, idiom_files, videos,
                   idioms_stats, crashes, faults, edits>>

\* A sync_folder whose error handling wraps the whole walk: the first file
\* that cannot be read or looked up ends the scan.
RegLookup_abort(o, F) ==
    LET me == orch[o]
        p == Head(me.scan)
    IN /\ me.pc = "sync" /\ me.scan # <<>>
       /\ \E readable \in Oks(F), dbok \in Oks(F) :
            LET h == get_file_hash(files, p, readable)
                rows == RowsOf(videos, p)
                row == CHOOSE r \in rows : TRUE
                reg == IF rows = {}
                       THEN [NoReg EXCEPT !.path = p, !.hash = h]
                       ELSE [path |-> p, hash |-> h, found |-> TRUE, id |-> row.id,
                             row_hash |-> row.file_hash, row_status |-> row.status]
            IN /\ readable \/ dbok
               /\ ~readable => files[p] # Absent
               /\ ~dbok => h # ""
               /\ Charge(~readable \/ ~dbok)
               /\ orch' = [orch EXCEPT ![o] =
                    IF h = "" THEN [me EXCEPT !.scan = <<>>,
                                              !.log = Append(me.log, Ev("hash", p, "fail"))]
                    ELSE IF ~dbok THEN [me EXCEPT !.scan = <<>>,
                                                  !.log = Append(me.log, Ev("register_video", p, "fail"))]
                    ELSE [me EXCEPT !.pc = "reg_write", !.reg = reg,
                                    !.lookups = me.lookups \cup {reg}]]
       /\ UNCHANGED <<api, budget, files, audio_cache, transcripts, idiom_files, videos,
                      idioms_stats, now, runs, crashes, edits>>

\* register_video, first half: the digest and the SELECT.
RegLookup(o, F) ==
    LET me == orch[o]
        p == Head(me.scan)
    IN /\ me.pc = "sync" /\ me.scan # <<>>
       /\ \E readable \in Oks(F), dbok \in Oks(F) :
            LET h == get_file_hash(files, p, readable)
                rows == RowsOf(videos, p)
                row == CHOOSE r \in rows : TRUE
                reg == IF rows = {}
                       THEN [NoReg EXCEPT !.path = p, !.hash = h]
                       ELSE [path |-> p, hash |-> h, found |-> TRUE, id |-> row.id,
                             row_hash |-> row.file_hash, row_status |-> row.status]
            IN /\ readable \/ dbok
               /\ ~readable => files[p] # Absent
               /\ ~dbok => h # ""
               /\ Charge(~readable \/ ~dbok)
               /\ orch' = [orch EXCEPT ![o] =
                    IF h = "" THEN [me EXCEPT !.scan = Tail(me.scan),
                                              !.log = Append(me.log, Ev("hash", p, "fail"))]
                    ELSE IF ~dbok THEN [me EXCEPT !.scan = Tail(me.scan),
                                                  !.log = Append(me.log, Ev("register_video", p, "fail"))]
                    ELSE [me EXCEPT !.pc = "reg_write", !.reg = reg,
                                    !.lookups = me.lookups \cup {reg}]]
       /\ UNCHANGED <<api, budget, files, audio_cache, transcripts, idiom_files, videos,
                      idioms_stats, now, runs, crashes, edits>>

\* register_video, second half: the UPDATE or INSERT and the commit.
RegWrite(o, F) ==
    LET me == orch[o]
        rejected == ~me.reg.found /\ RowsOf(videos, me.reg.path) # {}
    IN /\ me.pc = "reg_write"
       /\ \E dbok \in Oks(F) :
            /\ Charge(~dbok)
            /\ videos' = IF dbok THEN register_video(videos, me.reg, now) ELSE videos
            /\ orch' = [orch EXCEPT ![o] =
                 [me EXCEPT !.pc = "sync", !.scan = Tail(me.scan), !.reg = NoReg,
                            !.log = IF dbok /\ ~rejected THEN me.log
                                    ELSE Append(me.log, Ev("register_video", me.reg.path, "fail"))]]
       /\ UNCHANGED <<api, budget, files, audio_cache, transcripts, idiom_files,
                      idioms_stats, now, runs, crashes, edits>>

\* A stage loop that takes its working set from the table as it was when the
\* run started, not from the store.
List_snapshot(o, F, from, status, to) ==
    LET me == orch[o]
    IN /\ me.pc = from /\ me.scan = <<>> /\ me.queue = <<>>
       /\ \E dbok \in Oks(F) :
            /\ Charge(~dbok)
            /\ \E q \in Orders(IF dbok THEN get_videos_by_status(me.start, status) ELSE {}) :
                 orch' = [orch EXCEPT ![o] =
                    [me EXCEPT !.pc = to, !.queue = q,
                               !.log = IF dbok THEN me.log
                                       ELSE Append(me.log, Ev("get_videos_by_status", status, "fail"))]]
       /\ UNCHANGED <<api, budget, files, audio_cache, transcripts, idiom_files, videos,
                      idioms_stats, now, runs, crashes, edits>>

\* A stage loop starts: videos = self.db.get_videos_by_status(status); a
\* failed query returns [].
List(o, F, from, status, to) ==
    LET me == orch[o]
    IN /\ me.pc = from /\ me.scan = <<>> /\ me.queue = <<>>
       /\ \E dbok \in Oks(F) :
            /\ Charge(~dbok)
            /\ \E q \in Orders(IF dbok THEN get_videos_by_status(videos, status) ELSE {}) :
                 orch' = [orch EXCEPT ![o] =
                    [me EXCEPT !.pc = to, !.queue = q,
                               !.log = IF dbok THEN me.log
                                       ELSE Append(me.log, Ev("get_videos_by_status", status, "fail"))]]
       /\ UNCHANGED <<api, budget, files, audio_cache, transcripts, idiom_files, videos,
                      idioms_stats, now, runs, crashes, edits>>

ListAudio(o, F) == List(o, F, "sync", "pending", "audio")

\* _process_step_audio, one item: audio_path = self.audio_agent.extract(path)
AudioExtract(o, F) ==
    LET me == orch[o]
        p == Head(me.queue).file_path
    IN /\ me.pc = "audio" /\ me.queue # <<>>
       /\ \E decoded \in Oks(F) :
            LET r == extract(files, audio_cache, p, decoded)
            IN /\ ~decoded => r # extract(files, audio_cache, p, TRUE)
               /\ Charge(~decoded)
               /\ audio_cache' = r.cache
               /\ orch' = [orch EXCEPT ![o] =
                    IF r.ret = None
                    THEN [me EXCEPT !.queue = Tail(me.queue),
                                    !.log = Append(me.log, Ev("extract", p, "fail"))]
                    ELSE [me EXCEPT !.pc = "audio_write", !.art = r.ret,
                                    !.log = Append(me.log, Ev("extract", p, "ok"))]]
       /\ UNCHANGED <<api, budget, files, transcripts, idiom_files, videos, idioms_stats,
                      now, runs, crashes, edits>>

\* A status write whose store error is not caught: it leaves the stage loop
\* and run_full_pipeline as an exception.
StatusWrite_raise(o, F, at, status, kwargs, back) ==
    LET me == orch[o]
        p == Head(me.queue).file_path
    IN /\ me.pc = at
       /\ \E dbok \in Oks(F) :
            /\ Charge(~dbok)
            /\ videos' = IF dbok
                         THEN update_video_status(videos, p, status, kwargs, now)
                         ELSE videos
            /\ orch' = [orch EXCEPT ![o] =
                 IF dbok
                 THEN [me EXCEPT !.pc = back, !.queue = Tail(me.queue), !.art = None,
                                 !.work = <<>>, !.next = 0]
                 ELSE [me EXCEPT !.pc = "raised",
                                 !.log = Append(me.log, Ev("update_video_status", p, "fail"))]]
       /\ UNCHANGED <<api, budget, files, audio_cache, transcripts, idiom_files,
                      idioms_stats, now, runs, crashes, edits>>

\* The status write that ends an item's turn in a stage loop; a store error
\* is logged inside update_video_status.
StatusWrite(o, F, at, status, kwargs, back) ==
    LET me == orch[o]
        p == Head(me.queue).file_path
    IN /\ me.pc = at
       /\ \E dbok \in Oks(F) :
            /\ Charge(~dbok)
            /\ videos' = IF dbok
                         THEN update_video_status(videos, p, status, kwargs, now)
                         ELSE videos
            /\ orch' = [orch EXCEPT ![o] =
                 [me EXCEPT !.pc = back, !.queue = Tail(me.queue), !.art = None,
                            !.work = <<>>, !.next = 0,
                            !.log = IF dbok THEN me.log
                                    ELSE Append(me.log, Ev("update_video_status", p, "fail"))]]
       /\ UNCHANGED <<api, budget, files, audio_cache, transcripts, idiom_files,
                      idioms_stats, now, runs, crashes, edits>>

\* self.db.update_video_status(path, 'audio_extracted', audio_path=audio_path)
AudioWrite(o, F) ==
    StatusWrite(o, F, "audio_write", "audio_extracted",
                [f \in {"audio_path"} |-> orch[o].art], "audio")

ListStt(o, F) == List(o, F, "audio", "audio_extracted", "stt")

\* The transcripts the engine may return, by number of segments.
SegmentCounts == {MaxSegments}

\* _process_step_stt, one item, up to the status write: transcribe, then
\* save_results (which swallows its own error).
SttProcess(o, F) ==
    LET me == orch[o]
        video == Head(me.queue)
        p == video.file_path
    IN /\ me.pc = "stt" /\ me.queue # <<>>
       /\ \E modelOk \in Oks(F), n \in SegmentCounts, written \in Oks(F) :
            LET r == transcribe(audio_cache, video.audio_path, modelOk, n)
                transcript_path == TranscriptPath(video.audio_path)
            IN /\ modelOk \/ written
               /\ ~modelOk => ~transcribe(audio_cache, video.audio_path, TRUE, n).raised
               /\ r.raised => written
               /\ Charge(~modelOk \/ ~written)
               /\ IF r.raised
                  THEN /\ transcripts' = transcripts
                       /\ orch' = [orch EXCEPT ![o] =
                            [me EXCEPT !.queue = Tail(me.queue),
                                       !.log = Append(me.log, Ev("transcribe", p, "fail"))]]
                  ELSE /\ transcripts' = save_results(transcripts, r.segments,
                                                      transcript_path, written)
                       /\ orch' = [orch EXCEPT ![o] =
                            [me EXCEPT !.pc = "stt_write", !.art = transcript_path,
                                       !.log = me.log \o
                                          <<Ev("transcribe", p, "ok"),
                                            Ev("save_results", p,
                                               IF written THEN "ok" ELSE "fail")>>]]
       /\ UNCHANGED <<api, budget, files, audio_cache, idiom_files, videos, idioms_stats,
                      now, runs, crashes, edits>>

\* self.db.update_video_status(path, 'stt_done', transcript_path=transcript_path)
SttWrite(o, F) ==
    StatusWrite(o, F, "stt_write", "stt_done",
                [f \in {"transcript_path"} |-> orch[o].art], "stt")

ListLlm(o, F) == List(o, F, "stt", "stt_done", "llm")

\* What ollama.chat may answer for the batch of indexes i .. i+len-1: a
\* failed call (or unparsable JSON), or a JSON list. For the first batch: no
\* idiom, the same idiom twice, two idioms, idioms whose index is outside the
\* batch or missing; for a later batch: one idiom.
Item(w, idx) == [word |-> w, index |-> idx]

BatchAnswers(i, len, B) ==
    {[ok |-> TRUE, items |-> s] :
        s \in IF i = 0
              THEN {<<>>,
                    <<Item("w1", <<i>>), Item("w1", <<i>>)>>,
                    <<Item("w1", <<i>>), Item("w2", <<i + len - 1>>)>>,
                    <<Item("w2", <<i + len>>), Item("w2", None)>>}
              ELSE {<<Item("w1", <<i>>)>>}}
    \cup {[ok |-> FALSE, items |-> <<>>] : x \in B \ {TRUE}}

\* The model's answers for all batches of a transcript of n segments.
Answers(n, B) ==
    {a \in [1..NumBatches(n) ->
              UNION {BatchAnswers(i, BatchLen(n, i), B) : i \in 0..(n - 1)}] :
        \A b \in 1..NumBatches(n) :
            a[b] \in BatchAnswers((b - 1) * BatchSize,
                                  BatchLen(n, (b - 1) * BatchSize), B)}

\* _process_step_llm, one item, up to the status write: read the transcript,
\* process_segments, save_idioms (which swallows its own error).
LlmProcess(o, F) ==
    LET me == orch[o]
        video == Head(me.queue)
        p == video.file_path
        transcript_path == video.transcript_path
    IN /\ me.pc = "llm" /\ me.queue # <<>>
       /\ IF transcript_path = None \/ transcripts[transcript_path] = None
          THEN /\ idiom_files' = idiom_files
               /\ faults' = faults
               /\ orch' = [orch EXCEPT ![o] =
                    [me EXCEPT !.queue = Tail(me.queue),
                               !.log = Append(me.log, Ev("read_transcript", p, "fail"))]]
          ELSE \E answers \in Answers(transcripts[transcript_path][1], Oks(F)),
                  written \in Oks(F) :
                 LET segments == Segments(transcripts[transcript_path][1])
                     idioms == process_segments(segments, answers)
                     allOk == \A b \in DOMAIN answers : answers[b].ok
                 IN /\ Charge(~allOk \/ ~written)
                    /\ idiom_files' = save_idioms(idiom_files, idioms,
                                                  IdiomsPath(p), written)
                    /\ orch' = [orch EXCEPT ![o] =
                         [me EXCEPT !.pc = "llm_write", !.art = IdiomsPath(p),
                                    !.log = me.log \o
                                       <<Ev("llm", p, IF allOk THEN "ok" ELSE "fail"),
                                         Ev("save_idioms", p,
                                            IF written THEN "ok" ELSE "fail")>>]]
       /\ UNCHANGED <<api, budget, files, audio_cache, transcripts, videos, idioms_stats,
                      now, runs, crashes, edits>>

\* self.db.update_video_status(path, 'llm_done', idioms_path=idioms_path)
LlmWrite(o, F) ==
    StatusWrite(o, F, "llm_write", "llm_done",
                [f \in {"idioms_path"} |-> orch[o].art], "llm")

ListVideo(o, F) == List(o, F, "llm", "llm_done", "video")

Clipped(idioms) == {j \in 1..Len(idioms) : idioms[j].clip_path # None}

\* _process_step_video, one item, up to the recording loop: read the idioms
\* file, process_idioms (which swallows its own error).
VideoRender(o, F) ==
    LET me == orch[o]
        video == Head(me.queue)
        p == video.file_path
        idioms_path == video.idioms_path
    IN /\ me.pc = "video" /\ me.queue # <<>>
       /\ IF idioms_path = None \/ idiom_files[idioms_path] = None
          THEN /\ faults' = faults
               /\ orch' = [orch EXCEPT ![o] =
                    [me EXCEPT !.queue = Tail(me.queue),
                               !.log = Append(me.log, Ev("read_idioms", p, "fail"))]]
          ELSE LET idioms == idiom_files[idioms_path][1]
               IN \E k \in RenderCounts(files, p, idioms, Oks(F)) :
                     /\ Charge(k # FullRender(files, p, idioms))
                     /\ orch' = [orch EXCEPT ![o] =
                          [me EXCEPT !.pc = "video_record",
                                     !.work = process_idioms(p, idioms, k),
                                     !.next = 1,
                                     !.log = Append(me.log,
                                        Ev("render", p,
                                           IF k = Len(idioms) THEN "ok" ELSE "fail"))]]
       /\ UNCHANGED <<api, budget, files, audio_cache, transcripts, idiom_files, videos,
                      idioms_stats, now, runs, crashes, edits>>

\* The recording loop, one idiom: add_idiom_record when it has a clip_path;
\* a store error is logged inside add_idiom_record.
VideoRecord(o, F) ==
    LET me == orch[o]
        p == Head(me.queue).file_path
        idiom == me.work[me.next]
    IN /\ me.pc = "video_record" /\ me.next <= Len(me.work)
       /\ \E dbok \in Oks(F) :
            /\ ~dbok => idiom.clip_path # None
            /\ Charge(~dbok)
            /\ idioms_stats' =
                 IF idiom.clip_path # None /\ dbok
                 THEN add_idiom_record(idioms_stats, idiom.word, p, idiom.start,
                                       idiom.end, idiom.clip_path, now)
                 ELSE idioms_stats
            /\ orch' = [orch EXCEPT ![o] =
                 [me EXCEPT !.next = me.next + 1,
                            !.log = IF dbok THEN me.log
                                    ELSE Append(me.log, Ev("add_idiom_record", p, "fail"))]]
       /\ UNCHANGED <<api, budget, files, audio_cache, transcripts, idiom_files, videos,
                      now, runs, crashes, edits>>

\* self.db.update_video_status(path, 'completed')
VideoWrite(o, F) ==
    /\ orch[o].next > Len(orch[o].work)
    /\ StatusWrite(o, F, "video_record", "completed", <<>>, "video")

\* run_full_pipeline returns.
Finish(o) ==
    /\ orch[o].pc = "video" /\ orch[o].queue = <<>>
    /\ orch' = [orch EXCEPT ![o].pc = "done"]
    /\ UNCHANGED <<api, budget, files, audio_cache, transcripts, idiom_files, videos,
                   idioms_stats, now, runs, crashes, faults, edits>>

\* The process is killed in the middle of a run: its locals are lost, the
\* store and the disk keep what was committed and written.
Crash(o) ==
    /\ orch[o].pc \notin {"idle", "done", "off"}
    /\ Spent < budget
    /\ orch' = [orch EXCEPT ![o] = IdleOrch]
    /\ crashes' = crashes + 1
    /\ UNCHANGED <<api, budget, files, audio_cache, transcripts, idiom_files, videos,
                   idioms_stats, now, runs, faults, edits>>

Step(o, F) ==
    \/ RegLookup(o, F) \/ RegWrite(o, F)
    \/ ListAudio(o, F) \/ AudioExtract(o, F) \/ AudioWrite(o, F)
    \/ ListStt(o, F) \/ SttProcess(o, F) \/ SttWrite(o, F)
    \/ ListLlm(o, F) \/ LlmProcess(o, F) \/ LlmWrite(o, F)
    \/ ListVideo(o, F) \/ VideoRender(o, F) \/ VideoRecord(o, F)
    \/ VideoWrite(o, F)

Next ==
    \/ FileWrite
    \/ FileDelete
    \/ \E o \in Orchestrators :
         \/ StartRun(o)
         \/ Step(o, {FALSE})
         \/ Finish(o)
         \/ Crash(o)

Spec == Init /\ [][Next]_vars

\* ------------------------------------------------- the store, called directly
\* Direct calls of a store operation in one behaviour.
MaxCalls == 3

\* The clip locators a caller may pass.
ApiClips == {<<"output_clips", "a">>, <<"output_clips", "b">>}

\* db.add_idiom_record(word, source_video, start, end, clip_path) called by
\* any client of the store, at the clock reading of the call; a store error
\* is logged and the table keeps its content.
ApiAddIdiomRecord ==
    \E word \in Words, source \in {"d1/ep1.mp4"}, start \in {0, 2}, end \in {1, 3},
       clip \in ApiClips, t \in {now, now + 1}, dbok \in BOOLEAN :
        /\ api.n < MaxCalls
        /\ now' = t
        /\ idioms_stats' = IF dbok
                           THEN add_idiom_record(idioms_stats, word, source, start,
                                                 end, clip, t)
                           ELSE idioms_stats
        /\ api' = [NoCall EXCEPT !.op = "add_idiom_record", !.n = api.n + 1,
                                  !.ok = dbok, !.word = word, !.source = source,
                                  !.start = start, !.end = end, !.clip = clip,
                                  !.before = idioms_stats]
        /\ UNCHANGED <<files, audio_cache, transcripts, idiom_files, videos,
                       runs, crashes, faults, edits, budget, orch>>

\* db.get_idiom_stats(): the list returned, [] for a store error. A read is
\* not counted among the calls.
ApiGetIdiomStats ==
    \E dbok \in BOOLEAN :
        \E result \in IF dbok THEN get_idiom_stats(idioms_stats) ELSE {<<>>} :
            /\ api' = [NoCall EXCEPT !.op = "get_idiom_stats", !.n = api.n, !.ok = dbok,
                                      !.before = idioms_stats, !.result = result]
            /\ UNCHANGED <<files, audio_cache, transcripts, idiom_files, videos,
                           idioms_stats, now, runs, crashes, faults, edits, budget, orch>>

\* db.register_video(file_path) called directly: the digest, the SELECT and
\* the write in one step (no other client in between).
ApiRegisterVideo ==
    \E p \in Paths, t \in {now, now + 1}, dbok \in BOOLEAN :
        LET h == get_file_hash(files, p, TRUE)
            rows == RowsOf(videos, p)
            row == CHOOSE r \in rows : TRUE
            reg == IF rows = {}
                   THEN [NoReg EXCEPT !.path = p, !.hash = h]
                   ELSE [path |-> p, hash |-> h, found |-> TRUE, id |-> row.id,
                         row_hash |-> row.file_hash, row_status |-> row.status]
        IN /\ api.n < MaxCalls
           /\ now' = t
           /\ videos' = IF dbok /\ h # "" THEN register_video(videos, reg, t) ELSE videos
           /\ api' = [NoCall EXCEPT !.op = "register_video", !.n = api.n + 1,
                                     !.ok = dbok, !.path = p, !.before = videos]
           /\ UNCHANGED <<files, audio_cache, transcripts, idiom_files, idioms_stats,
                          runs, crashes, faults, edits, budget, orch>>

\* The keyword arguments a caller of update_video_status may pass: none, one
\* artifact field, two artifact fields, an artifact field and a column that
\* is not among the allowed fields.
Kwargs(k) ==
    CASE k = 1 -> <<>>
      [] k = 2 -> [audio_path |-> <<"audio_cache", "a">>]
      [] k = 3 -> [transcript_path |-> <<"transcripts", "t">>,
                   idioms_path |-> <<"filtered_idioms", "i">>]
      [] k = 4 -> [audio_path |-> <<"audio_cache", "b">>, file_hash |-> "md5-v2"]

\* db.update_video_status(file_path, status, **kwargs) called directly.
ApiUpdateVideoStatus ==
    \E p \in Paths, status \in {"audio_extracted", "completed"}, k \in 1..4,
       t \in {now, now + 1}, dbok \in BOOLEAN :
        /\ api.n < MaxCalls
        /\ now' = t
        /\ videos' = IF dbok
                     THEN update_video_status(videos, p, status, Kwargs(k), t)
                     ELSE videos
        /\ api' = [NoCall EXCEPT !.op = "update_video_status", !.n = api.n + 1,
                                  !.ok = dbok, !.path = p, !.status = status,
                                  !.kw = k, !.before = videos]
        /\ UNCHANGED <<files, audio_cache, transcripts, idiom_files, idioms_stats,
                       runs, crashes, faults, edits, budget, orch>>

StoreNext ==
    \/ ApiAddIdiomRecord \/ ApiGetIdiomStats
    \/ ApiRegisterVideo \/ ApiUpdateVideoStatus

\* The store is called with two files in the watched directory.
StoreInit == Init /\ \A p \in Paths : files[p] = Absent <=> p = "d2/ep1.mp4"

StoreSpec == StoreInit /\ [][StoreNext]_vars

\* --------------------------------------------- runs whose processors succeed
\* Every stage processor and every store operation succeeds; a run may be
\* killed and a file may disappear, within the budget of disturbances; the
\* operator keeps starting runs and a started run keeps stepping.
Progress ==
    \E o \in Orchestrators : StartRun(o) \/ Step(o, {}) \/ Finish(o)

FairNext == Progress \/ FileDelete \/ \E o \in Orchestrators : Crash(o)

FairSpec == Init /\ [][FairNext]_vars /\ WF_vars(Progress)

\* ------------------------------------------------ runs in which calls fail
\* Failing steps in one behaviour of the specification below.
MaxFaults == 3

\* Any step of a run may fail, up to MaxFaults times in a behaviour: a file
\* read, a store operation, a stage processor call. No run is killed and
\* every call returns, so a run that has started keeps stepping. The watched
\* directory holds one file at most.
FaultyInit ==
    /\ Start(MaxFaults, {1})
    /\ Cardinality({p \in Paths : files[p] # Absent}) <= 1

FaultyNext == \E o \in Orchestrators : StartRun(o) \/ Step(o, {FALSE}) \/ Finish(o)

FaultySpec ==
    /\ FaultyInit /\ [][FaultyNext]_vars
    /\ WF_vars(\E o \in Orchestrators : Step(o, {FALSE}) \/ Finish(o))

\* ------------------------------------------------------ two runs at a time
\* Two run_full_pipeline invocations against the same store (two processes,
\* or two clicks of the start button), nothing failing, one file in the
\* watched directory. Of the interleavings of the two, those in which neither
\* run starts extracting before the other has listed its pending items.
RaceInit ==
    /\ Start(0, Orchestrators)
    /\ Cardinality({p \in Paths : files[p] # Absent}) = 1

HasListed(o) == orch[o].pc \notin {"idle", "sync", "reg_write"}

RaceStep(o) ==
    /\ orch[o].pc = "audio" => \A other \in Orchestrators : HasListed(other)
    /\ StartRun(o) \/ Step(o, {}) \/ Finish(o)

RaceNext == \E o \in Orchestrators : RaceStep(o)

RaceSpec ==
    /\ RaceInit /\ [][RaceNext]_vars
    /\ \A o \in Orchestrators : WF_vars(RaceStep(o))

\* ------------------------------------------ process_segments, called directly
\* What the language model may answer for one batch of a transcript of n
\* segments: a failed call (or an answer without a JSON list), or a list of up
\* to two idioms, each with no index or with any index from -1 to n.
ModelItems(n) == {Item(w, idx) : w \in Words, idx \in {None} \cup {<<k>> : k \in -1..n}}

ModelAnswers(n) ==
    {[ok |-> FALSE, items |-> <<>>]}
    \cup {[ok |-> TRUE, items |-> s] :
            s \in {<<>>} \cup {<<a>> : a \in ModelItems(n)}
                  \cup {<<a, b>> : a \in ModelItems(n), b \in ModelItems(n)}}

\* llm_agent.process_segments(segments) for a transcript of up to MaxSegments
\* segments, with the model's answer for each batch. The function keeps no
\* state between calls: a behaviour has one call.
ApiProcessSegments ==
    \E n \in 0..MaxSegments :
        \E answers \in [1..NumBatches(n) -> ModelAnswers(n)] :
            /\ api.op = "none"
            /\ api' = [NoCall EXCEPT !.op = "process_segments",
                                      !.segments = Segments(n),
                                      !.answers = answers,
                                      !.result = process_segments(Segments(n), answers)]
            /\ UNCHANGED <<files, audio_cache, transcripts, idiom_files, videos,
                           idioms_stats, now, runs, crashes, faults, edits, budget, orch>>

LlmInit == Start(0, {}) /\ \A p \in Paths : files[p] = Absent

LlmSpec == LlmInit /\ [][ApiProcessSegments]_vars

\* ------------------------------------------- two runs, every interleaving
\* Two run_full_pipeline invocations against the same store and the same
\* directories, their steps interleaved in any way, nothing failing and the
\* watched directory left alone; one file in the watched directory.
ConcInit ==
    /\ Start(0, Orchestrators)
    /\ Cardinality({p \in Paths : files[p] # Absent}) = 1

ConcNext == \E o \in Orchestrators : StartRun(o) \/ Step(o, {}) \/ Finish(o)

ConcSpec == ConcInit /\ [][ConcNext]_vars

\* ----------------------------------------------------------- vocabulary
\* The run of orchestrator o logged the event.
Has(o, op, p, res) ==
    \E i \in DOMAIN orch[o].log : orch[o].log[i] = Ev(op, p, res)

\* Nothing failed in the run of orchestrator o.
NoFailure(o) == \A i \in DOMAIN orch[o].log : orch[o].log[i].res # "fail"

\* The operations of the four stage processors, as logged.
ProcessorOps == {"extract", "transcribe", "save_results", "read_transcript",
                 "llm", "save_idioms", "read_idioms", "render"}

StatusAt(tbl, p) == {r.status : r \in RowsOf(tbl, p)}

OccurrencesOf(p) == {s \in idioms_stats : s.source_video = p}

\* ------------------------------------------------------------------ claims
\* C1. Isolation of failures: the audio stage of a run lists two pending
\* items a and b (only pending items reach extract), the extraction fails for
\* a and succeeds for b, and the store takes b's status write: when the run
\* has returned, b is at audio_extracted or later and a is still pending, in
\* whichever order the two were listed.
C1_IsolationOfFailures ==
    \A o \in Orchestrators :
        orch[o].pc = "done" =>
            \A a, b \in Paths :
                (/\ a # b
                 /\ Has(o, "extract", a, "fail")
                 /\ Has(o, "extract", b, "ok")
                 /\ ~Has(o, "update_video_status", b, "fail"))
                => /\ \E s \in StatusAt(videos, b) : Rank(s) >= Rank("audio_extracted")
                   /\ StatusAt(videos, a) = {"pending"}

\* The run has returned; a was listed first and failed, b came after it.
C1_Witness ==
    \E o \in Orchestrators, a, b \in Paths :
        /\ orch[o].pc = "done"
        /\ a # b
        /\ \E i, j \in DOMAIN orch[o].log :
              /\ i < j
              /\ orch[o].log[i] = Ev("extract", a, "fail")
              /\ orch[o].log[j] = Ev("extract", b, "ok")
        /\ StatusAt(videos, a) = {"pending"}
        /\ StatusAt(videos, b) = {"completed"}

\* C2. Partial render must not mark completed: when the clip rendering of an
\* item raised before every recognized concept had its clip, the run leaves
\* the item at llm_done.
C2_PartialRenderNotCompleted ==
    \A o \in Orchestrators :
        orch[o].pc \in {"video", "done"} =>
            \A p \in Paths :
                Has(o, "render", p, "fail") => StatusAt(videos, p) = {"llm_done"}

\* The run started on an empty store, found one item, and nothing failed in
\* it; the item's concepts artifact holds three concepts.
FreshSingleRun(o, p) ==
    /\ orch[o].pc = "done"
    /\ orch[o].start = {} /\ orch[o].start_stats = {}
    /\ Cardinality(videos) = 1 /\ RowsOf(videos, p) # {}
    /\ NoFailure(o)
    /\ Has(o, "save_idioms", p, "ok")
    /\ Len(idiom_files[IdiomsPath(p)][1]) = 3

\* The item is completed and has three occurrence rows, each with a clip.
ThreeOccurrences(p) ==
    /\ StatusAt(videos, p) = {"completed"}
    /\ Cardinality(OccurrencesOf(p)) = 3
    /\ \A s \in OccurrencesOf(p) : s.clip_path # None

\* No two concepts of the list share label and start time.
DistinctKeys(idioms) ==
    \A i, j \in DOMAIN idioms :
        i # j => <<idioms[i].word, idioms[i].start>> # <<idioms[j].word, idioms[j].start>>

C4_FailureLeavesStatus ==
    \A o \in Orchestrators :
        orch[o].pc = "done" =>
            \A p \in Paths :
                /\ (Has(o, "transcribe", p, "fail") \/ Has(o, "save_results", p, "fail"))
                   => StatusAt(videos, p) = {"audio_extracted"}
                /\ (Has(o, "llm", p, "fail") \/ Has(o, "save_idioms", p, "fail"))
                   => StatusAt(videos, p) = {"stt_done"}

\* The registry sync of orchestrator o is under way or just over: no stage
\* loop of the run has started.
Syncing(o) == orch[o].pc \in {"sync", "reg_write"}

\* The sync found a row for the file with another fingerprint than the one
\* it computed from the file's bytes.
Changed(reg) == reg.found /\ reg.row_hash # reg.hash

\* C5. Change detection: once the registry sync has registered a file whose
\* fingerprint differs from the stored one (and the store took the write), the
\* item is pending and its stored fingerprint is the one of the new content.
C5_ChangeDetection ==
    \A o \in Orchestrators :
        orch[o].pc = "sync" =>
            \A reg \in orch[o].lookups :
                (Changed(reg) /\ ~Has(o, "register_video", reg.path, "fail"))
                => \E r \in RowsOf(videos, reg.path) :
                      /\ r.id = reg.id
                      /\ r.status = "pending"
                      /\ r.file_hash = reg.hash
                      /\ reg.hash \in Hashes

\* The sync is over; a completed item's file had changed: it is pending again
\* under the new fingerprint, which is the fingerprint of the file's bytes.
C5_Witness ==
    \E o \in Orchestrators :
        /\ orch[o].pc = "sync" /\ orch[o].scan = <<>>
        /\ \E reg \in orch[o].lookups :
              /\ Changed(reg)
              /\ reg.row_status = "completed"
              /\ \E r \in RowsOf(videos, reg.path) :
                    /\ r.status = "pending"
                    /\ r.file_hash = reg.hash
                    /\ r.file_hash = Md5(files[reg.path])
                    /\ r.file_hash # reg.row_hash

\* C6. A sync that finds a file unchanged performs no mutation: during and
\* after the registry sync, the row of every file found with its stored
\* fingerprint is exactly the row the run started with (status, fingerprint,
\* timestamp, artifact locators), and when every file scanned so far was found
\* unchanged the whole table is.
C6_UnchangedSyncNoMutation ==
    \A o \in Orchestrators :
        Syncing(o) =>
            /\ \A reg \in orch[o].lookups :
                  (reg.found /\ ~Changed(reg))
                  => RowsOf(videos, reg.path) = RowsOf(orch[o].start, reg.path)
            /\ (\A reg \in orch[o].lookups : reg.found /\ ~Changed(reg))
               => videos = orch[o].start

\* A second sync is over, at a later clock reading than the rows' timestamps;
\* it found every file unchanged, and rows at a status other than pending.
C6_Witness ==
    \E o \in Orchestrators :
        /\ orch[o].pc = "sync" /\ orch[o].scan = <<>>
        /\ Cardinality(orch[o].lookups) = 2
        /\ \A reg \in orch[o].lookups : reg.found /\ ~Changed(reg)
        /\ videos = orch[o].start
        /\ \A r \in videos : r.last_updated < now
        /\ \E r \in videos : r.status = "completed"

\* Every item the store held when the run started was completed, and every
\* file the run has scanned was found unchanged.
AllCompletedUnchanged(o) ==
    /\ orch[o].pc \notin {"idle", "off"}
    /\ orch[o].start # {}
    /\ \A r \in orch[o].start : r.status = "completed"
    /\ \A reg \in orch[o].lookups : reg.found /\ ~Changed(reg)

\* C7. Re-run is a no-op: in a run started with every item completed and
\* finding no file changed, both tables stay as they were when the run
\* started and no stage processor is invoked.
C7_RerunNoOp ==
    \A o \in Orchestrators :
        AllCompletedUnchanged(o) =>
            /\ videos = orch[o].start
            /\ idioms_stats = orch[o].start_stats
            /\ \A i \in DOMAIN orch[o].log : orch[o].log[i].op \notin ProcessorOps

\* Such a run has returned; it had files to scan and occurrences to keep.
C7_Witness ==
    \E o \in Orchestrators :
        /\ AllCompletedUnchanged(o)
        /\ orch[o].pc = "done"
        /\ Cardinality(orch[o].lookups) = 2
        /\ idioms_stats # {}
        /\ videos = orch[o].start
        /\ idioms_stats = orch[o].start_stats

\* The rows of tbl with the natural key of the last direct call.
KeyRows(tbl) == {r \in tbl : SameKey(r, api.word, api.source, api.start)}

\* C8. Occurrence idempotence (I3): after any sequence of add_idiom_record
\* calls the table has at most one row per (word, source_video,
\* timestamp_start); a call whose key already has a row adds no row and
\* changes only that row's clip_path, to the value supplied (timestamp_end and
\* created_at stay as first recorded); a call with a new key adds one row
\* holding the call's arguments.
C8_OccurrenceIdempotence ==
    /\ \A r1, r2 \in idioms_stats :
          SameKey(r1, r2.word, r2.source_video, r2.timestamp_start) => r1 = r2
    /\ (api.op = "add_idiom_record" /\ api.ok) =>
          IF KeyRows(api.before) # {}
          THEN /\ Cardinality(idioms_stats) = Cardinality(api.before)
               /\ \A r \in api.before :
                     \E q \in idioms_stats :
                        /\ q.id = r.id
                        /\ q.timestamp_end = r.timestamp_end
                        /\ q.created_at = r.created_at
                        /\ q.clip_path = IF r \in KeyRows(api.before)
                                         THEN api.clip ELSE r.clip_path
                        /\ SameKey(q, r.word, r.source_video, r.timestamp_start)
          ELSE /\ api.before \subseteq idioms_stats
               /\ Cardinality(idioms_stats) = Cardinality(api.before) + 1
               /\ \E q \in KeyRows(idioms_stats) :
                     /\ q.timestamp_end = api.end
                     /\ q.clip_path = api.clip
                     /\ q.created_at = now

\* A call repeated a key at a later clock reading, with another end time and
\* another clip locator than the row had: the row has the new locator only.
C8_Witness ==
    /\ api.op = "add_idiom_record" /\ api.ok
    /\ Cardinality(api.before) = 2
    /\ Cardinality(idioms_stats) = 2
    /\ \E r \in KeyRows(api.before) :
          /\ r.clip_path # api.clip
          /\ r.timestamp_end # api.end
          /\ r.created_at < now
          /\ \E q \in KeyRows(idioms_stats) :
                /\ q.clip_path = api.clip
                /\ q.timestamp_end = r.timestamp_end
                /\ q.created_at = r.created_at

\* The pc at which the stage whose precondition is status s writes the next
\* status.
WritePc(s) ==
    CASE s = "pending" -> "audio_write"
      [] s = "audio_extracted" -> "stt_write"
      [] s = "stt_done" -> "llm_write"
      [] s = "llm_done" -> "video_record"
      [] OTHER -> "none"

\* Row r changes its status to s2 in this step as the stage whose
\* precondition is r's status does for the item it is working on.
StageMove(r, s2) ==
    \E o \in Orchestrators :
        /\ orch[o].pc = WritePc(r.status)
        /\ orch[o].queue # <<>>
        /\ Head(orch[o].queue).file_path = r.file_path
        /\ Rank(s2) = Rank(r.status) + 1

\* Row r changes its status to s2 in this step as the registry does for a
\* file whose fingerprint changed.
RegistryReset(r, s2) ==
    \E o \in Orchestrators :
        /\ orch[o].pc = "reg_write"
        /\ orch[o].reg.path = r.file_path
        /\ Changed(orch[o].reg)
        /\ s2 = "pending"

MonotoneStep ==
    \A r \in videos :
        \E q \in videos' :
            /\ q.id = r.id /\ q.file_path = r.file_path
            /\ q.status # r.status => StageMove(r, q.status) \/ RegistryReset(r, q.status)

\* C9. Status monotonicity under a single orchestrator: every step keeps
\* every row, and changes a row's status only one step forward, by the stage
\* whose precondition is the row's status, or back to pending, by the registry
\* resetting a changed file.
C9_StatusMonotone == [][MonotoneStep]_vars

\* An item went through all four stages; another was completed and is back at
\* pending, reset by the registry.
C9_Witness ==
    /\ \E r \in videos : r.status = "completed"
    /\ \E r \in videos : r.status = "pending" /\ r.idioms_path # None
    /\ orch[2].pc = "off"

\* What the store says of an item is on disk: the audio of an item at
\* audio_extracted or later, the transcript at stt_done or later, the
\* concepts artifact at llm_done or later.
StatusBacked ==
    \A r \in videos :
        /\ Rank(r.status) >= 2 => r.audio_path # None /\ audio_cache[r.audio_path] # None
        /\ Rank(r.status) >= 3 =>
              r.transcript_path # None /\ transcripts[r.transcript_path] # None
        /\ Rank(r.status) >= 4 =>
              r.idioms_path # None /\ idiom_files[r.idioms_path] # None

\* Every file in the watched directory has a completed item.
AllCompleted ==
    \A p \in Paths : files[p] # Absent => StatusAt(videos, p) = {"completed"}

StoreOps == {"register_video", "get_videos_by_status", "update_video_status",
             "add_idiom_record"}

\* C11. The whole run completes: with every call returning or failing, in any
\* combination of failed file reads, failed stage-processor calls and failed
\* store operations, a run_full_pipeline call that has started returns to its
\* caller (no failure leaves it as an exception).
C11_RunReturns ==
    \A o \in Orchestrators :
        (orch[o].pc \notin {"idle", "done", "off"}) ~> (orch[o].pc = "done")

\* A run has returned in which a stage processor call and a store operation
\* had failed, the behaviour's failures being used up.
C11_Witness ==
    \E o \in Orchestrators :
        /\ orch[o].pc = "done"
        /\ faults = MaxFaults
        /\ \E i, j \in DOMAIN orch[o].log :
              /\ orch[o].log[i].op \in StoreOps /\ orch[o].log[i].res = "fail"
              /\ orch[o].log[j].op \in ProcessorOps /\ orch[o].log[j].res = "fail"

\* The stage a logged processor operation belongs to, by the status the stage
\* takes its items from.
StageOf(op) ==
    CASE op = "extract" -> "pending"
      [] op \in {"transcribe", "save_results"} -> "audio_extracted"
      [] op \in {"read_transcript", "llm", "save_idioms"} -> "stt_done"
      [] OTHER -> "llm_done"

\* C12. Persistence failure handling: when the status write that ends an
\* item's turn in a stage fails at the store, the item keeps the stage's
\* precondition status, no stage processor is invoked for the items that
\* remained in that stage's loop, and the items the loop had advanced before
\* keep their new status.
C12_StoreFailureAbortsLoop ==
    \A o \in Orchestrators :
        \A i \in DOMAIN orch[o].log :
            LET log == orch[o].log
                stage == StageOf(log[i - 1].op)
            IN (i > 1 /\ log[i].op = "update_video_status" /\ log[i].res = "fail")
               => /\ StatusAt(videos, log[i].path) = {stage}
                  /\ \A j \in DOMAIN log :
                        j > i => ~(log[j].op \in ProcessorOps /\ StageOf(log[j].op) = stage)
                  /\ \A j \in DOMAIN log :
                        (j < i - 1 /\ log[j].op \in ProcessorOps
                         /\ StageOf(log[j].op) = stage /\ log[j].path # log[i].path)
                        => \E st \in StatusAt(videos, log[j].path) : Rank(st) > Rank(stage)

\* The step sets the item orchestrator o is recording to completed.
Completes(o) ==
    /\ orch[o].pc = "video_record" /\ orch[o].queue # <<>>
    /\ LET p == Head(orch[o].queue).file_path
       IN /\ "completed" \notin StatusAt(videos, p)
          /\ "completed" \in StatusAt(videos', p)

\* Every occurrence orchestrator o rendered for the item it is recording is
\* in the occurrence table, with its clip locator.
RenderedRecorded(o) ==
    \A j \in Clipped(orch[o].work) :
        \E s \in idioms_stats :
            /\ SameKey(s, orch[o].work[j].word, Head(orch[o].queue).file_path,
                       orch[o].work[j].start)
            /\ s.clip_path = orch[o].work[j].clip_path

\* C13. Occurrences are persisted before completion: every step by which the
\* clip rendering stage sets an item to completed finds each occurrence
\* rendered in that stage execution in the occurrence table, with its clip
\* locator; so an item for which recording an occurrence failed at the store
\* is not set to completed.
C13_OccurrencesBeforeCompletion ==
    [][\A o \in Orchestrators : Completes(o) => RenderedRecorded(o)]_vars

\* C14. Frequency aggregate: a get_idiom_stats call that the store answers
\* returns one (word, freq) pair per distinct word of idioms_stats, freq being
\* the number of rows with that word, in non-increasing order of freq, and
\* leaves the table as it was.
C14_FrequencyAggregate ==
    (api.op = "get_idiom_stats" /\ api.ok) =>
        LET res == api.result
        IN /\ idioms_stats = api.before
           /\ {res[i].word : i \in DOMAIN res} = {r.word : r \in idioms_stats}
           /\ \A i, j \in DOMAIN res : i # j => res[i].word # res[j].word
           /\ \A i \in DOMAIN res :
                 res[i].freq = Cardinality({r \in idioms_stats : r.word = res[i].word})
           /\ \A i, j \in DOMAIN res : i < j => res[i].freq >= res[j].freq

\* The call returned two words, the first with two rows, the second with one.
C14_Witness ==
    /\ api.op = "get_idiom_stats" /\ api.ok
    /\ Len(api.result) = 2
    /\ api.result[1].freq = 2 /\ api.result[2].freq = 1
    /\ Cardinality(idioms_stats) = 3

\* C15. Partial update frame: an update_video_status(path, status, fields)
\* call that the store takes changes, in the row with that path only, the
\* status, the last-updated timestamp and the artifact fields among
\* audio_path, transcript_path, idioms_path that were supplied; the artifact
\* fields not supplied, the fingerprint, the path and id, and every other row
\* stay as they were, and a supplied field outside the allowed set is not
\* written.
C15_PartialUpdateFrame ==
    (api.op = "update_video_status" /\ api.ok) =>
        /\ Cardinality(videos) = Cardinality(api.before)
        /\ \A r \in api.before :
              IF r.file_path = api.path
              THEN \E q \in videos :
                      /\ q.id = r.id /\ q.file_path = r.file_path
                      /\ q.file_hash = r.file_hash
                      /\ q.status = api.status
                      /\ q.last_updated = now
                      /\ \A f \in AllowedFields :
                            q[f] = IF f \in DOMAIN Kwargs(api.kw)
                                   THEN Kwargs(api.kw)[f] ELSE r[f]
              ELSE r \in videos

\* A call passed audio_path and file_hash for a row that had a transcript and
\* a concepts locator: the row has the new audio locator, status and
\* timestamp, and its fingerprint and other locators as before.
C15_Witness ==
    /\ api.op = "update_video_status" /\ api.ok /\ api.kw = 4
    /\ \E r \in api.before, q \in videos :
          /\ r.file_path = api.path /\ q.file_path = api.path
          /\ r.transcript_path # None /\ q.transcript_path = r.transcript_path
          /\ q.idioms_path = r.idioms_path
          /\ q.audio_path = <<"audio_cache", "b">> /\ r.audio_path # q.audio_path
          /\ q.file_hash = "md5-v1"
          /\ q.status # r.status
          /\ q.last_updated > r.last_updated

\* Both runs had the item on the list of pending items they fetched (extract
\* is invoked for listed items only), and both have invoked the audio
\* extraction for it.
DoubleInvocation ==
    \E p \in Paths : \A o \in Orchestrators : Has(o, "extract", p, "ok")

\* C16. Concurrent runs are unsafe without an added lock: two interleaved
\* runs that both list their pending items before either extracts come to a
\* state in which both have listed the same item for the audio stage and both
\* have invoked the extraction for it; nothing in the store or the
\* orchestrator keeps the second from it.
C16_ConcurrentRunsCollide == <>DoubleInvocation

\* Both runs have extracted the same item's audio and are about to write its
\* status.
C16_Witness ==
    /\ DoubleInvocation
    /\ \A o \in Orchestrators : orch[o].pc = "audio_write"
    /\ Head(orch[1].queue).file_path = Head(orch[2].queue).file_path

\* The sync of orchestrator o skipped the file: its fingerprint could not be
\* computed, or its registration failed at the store.
Skipped(o, p) == Has(o, "hash", p, "fail") \/ Has(o, "register_video", p, "fail")

\* During and after the sync a skipped file's record is as it was when the run
\* started (none, if it had none), and once the scan is over every other file
\* that was in the watched directory has been looked up and has a row with the
\* fingerprint computed.
SkippedIsolated ==
    \A o \in Orchestrators :
        Syncing(o) =>
            \A p \in orch[o].listed :
                IF Skipped(o, p)
                THEN RowsOf(videos, p) = RowsOf(orch[o].start, p)
                ELSE (orch[o].pc = "sync" /\ orch[o].scan = <<>>)
                     => \E reg \in orch[o].lookups :
                           /\ reg.path = p
                           /\ \E r \in RowsOf(videos, p) : r.file_hash = reg.hash

\* A run's sync walks every file that is in the watched directory when it
\* starts, whatever became of the file in earlier syncs.
ScansAll ==
    \A o \in Orchestrators :
        (orch[o].pc \in {"idle", "done"} /\ orch'[o].pc = "sync")
        => /\ orch'[o].listed = {p \in Paths : files[p] # Absent}
           /\ {orch'[o].scan[i] : i \in DOMAIN orch'[o].scan} = orch'[o].listed

\* C17. Discovery failure isolation: a file whose fingerprint cannot be
\* computed or whose registration fails at the store is skipped without
\* creating or changing any item record, the scan goes on to register every
\* remaining file, and the next sync attempts the skipped file again.
C17_DiscoveryFailureIsolation == []SkippedIsolated /\ [][ScansAll]_vars

\* A sync is over in which one file could not be read and has no row, and the
\* other file of the directory was registered.
C17_Witness ==
    \E o \in Orchestrators, p, q \in Paths :
        /\ orch[o].pc = "sync" /\ orch[o].scan = <<>>
        /\ orch[o].listed = {p, q} /\ p # q
        /\ files[p] # Absent /\ Has(o, "hash", p, "fail")
        /\ RowsOf(videos, p) = {}
        /\ \E r \in RowsOf(videos, q) : r.status = "pending" /\ r.last_updated = now

\* The step is a reset: the registry writes the row of a file it found
\* changed.
Resets(o) ==
    /\ orch[o].pc = "reg_write" /\ Changed(orch[o].reg)
    /\ videos' # videos

\* The step changes, in the row the registry looked up, the fingerprint, the
\* status and the timestamp, and nothing else in the two tables.
ResetFrame(o) ==
    /\ idioms_stats' = idioms_stats
    /\ Cardinality(videos') = Cardinality(videos)
    /\ \A r \in videos :
          IF r.id = orch[o].reg.id
          THEN \E q \in videos' :
                  /\ q.id = r.id /\ q.file_path = r.file_path
                  /\ q.audio_path = r.audio_path
                  /\ q.transcript_path = r.transcript_path
                  /\ q.idioms_path = r.idioms_path
                  /\ q.status = "pending"
                  /\ q.file_hash = orch[o].reg.hash
                  /\ q.last_updated = now
          ELSE r \in videos'

\* C18. Reset frame: a fingerprint-triggered reset changes only the item's
\* fingerprint, status (to pending) and last-updated timestamp; its audio,
\* transcript and concepts locators, every other item and every occurrence
\* row stay as they were.
C18_ResetFrame == [][\A o \in Orchestrators : Resets(o) => ResetFrame(o)]_vars

\* A completed item has been reset: it is pending under the new fingerprint,
\* with its three locators and its occurrence rows in place.
C18_Witness ==
    \E o \in Orchestrators, r \in videos :
        /\ orch[o].pc = "sync"
        /\ \E reg \in orch[o].lookups :
              reg.path = r.file_path /\ Changed(reg) /\ reg.row_status = "completed"
        /\ r.status = "pending" /\ r.file_hash = "md5-v2"
        /\ r.audio_path # None /\ r.transcript_path # None /\ r.idioms_path # None
        /\ OccurrencesOf(r.file_path) # {}
        /\ idioms_stats = orch[o].start_stats

\* C19. Status/artifact atomicity (I4): in every reachable state, after
\* kills, failures and registry resets alike, an item at audio_extracted or
\* later has an audio locator, an item at stt_done or later a transcript
\* locator, and an item at llm_done or later a concepts locator (a stage
\* writes status and locator in one UPDATE).
C19_StatusArtifactAtomicity ==
    \A r \in videos :
        /\ Rank(r.status) >= Rank("audio_extracted") => r.audio_path # None
        /\ Rank(r.status) >= Rank("stt_done") => r.transcript_path # None
        /\ Rank(r.status) >= Rank("llm_done") => r.idioms_path # None

\* An item that had been through every stage was reset by the registry and
\* has advanced again to stt_done.
C19_Witness ==
    \E r \in videos :
        /\ r.status = "stt_done" /\ r.file_hash = "md5-v2"
        /\ r.audio_path # None /\ r.transcript_path # None /\ r.idioms_path # None
        /\ edits > 0

\* C20. Content change redoes the pipeline: once a run has reset an item to
\* pending for a changed fingerprint and its audio extraction for the item has
\* succeeded, the item's audio artifact is cut from the content that has this
\* fingerprint, not from the superseded content.
C20_ContentChangeRedoes ==
    \A o \in Orchestrators :
        \A reg \in orch[o].lookups :
            (Changed(reg) /\ Has(o, "extract", reg.path, "ok"))
            => \E c \in Contents :
                  /\ Md5(c) = reg.hash
                  /\ audio_cache[AudioPath(reg.path)] = <<c>>

\* The position of a run: 0 in the registry sync, 1 to 4 in the stage loops
\* (audio extraction, transcription, concept extraction, clip rendering), 5
\* when run_full_pipeline has returned.
StagePos(pc) ==
    CASE pc \in {"sync", "reg_write"} -> 0
      [] pc \in {"audio", "audio_write"} -> 1
      [] pc \in {"stt", "stt_write"} -> 2
      [] pc \in {"llm", "llm_write"} -> 3
      [] pc \in {"video", "video_record"} -> 4
      [] OTHER -> 5

\* The status a stage loop takes its items from, by position.
StageStatus(k) == StatusOrder[k]

\* A step of a run stays in its position or moves to the next one; a call
\* starts in the registry sync; a killed run is idle.
StageOrderStep ==
    \A o \in Orchestrators :
        LET a == orch[o].pc
            b == orch'[o].pc
        IN a # b =>
             \/ a \in {"idle", "done"} /\ b = "sync"
             \/ a \notin {"idle", "done", "off"} /\ b = "idle" /\ crashes' = crashes + 1
             \/ /\ a \notin {"idle", "done", "off"}
                /\ StagePos(b) \in {StagePos(a), StagePos(a) + 1}
                /\ StagePos(b) = 5 => b = "done"

\* The step by which a run enters a stage loop gives it, as its working set,
\* the rows that are at the stage's status in the store at that moment (none
\* when the query failed).
ListsFromStore ==
    \A o \in Orchestrators :
        LET k == StagePos(orch'[o].pc)
            q == orch'[o].queue
        IN (orch[o].pc \notin {"idle", "done", "off"} /\ k \in 1..4
            /\ StagePos(orch[o].pc) = k - 1)
           => /\ \A i, j \in DOMAIN q : i # j => q[i] # q[j]
              /\ {q[i] : i \in DOMAIN q} =
                   IF Len(orch'[o].log) > Len(orch[o].log)
                   THEN {}
                   ELSE {r \in videos : r.status = StageStatus(k)}

\* The processor invocations a run has logged come in stage order, none while
\* the run is at an earlier position, and none twice for the same item.
InvocationsOrdered ==
    \A o \in Orchestrators :
        LET log == orch[o].log
        IN \A i, j \in DOMAIN log :
              (log[i].op \in ProcessorOps /\ log[j].op \in ProcessorOps) =>
                 /\ Rank(StageOf(log[i].op)) <= StagePos(orch[o].pc)
                 /\ i < j => Rank(StageOf(log[i].op)) <= Rank(StageOf(log[j].op))
                 /\ (i # j /\ log[i].path = log[j].path) => log[i].op # log[j].op

\* A run in which nothing failed has returned: every item its audio stage
\* took is completed.
AdvancedInSameRun ==
    \A o \in Orchestrators, p \in Paths :
        (orch[o].pc = "done" /\ NoFailure(o) /\ Has(o, "extract", p, "ok"))
        => StatusAt(videos, p) = {"completed"}

\* C21. Fixed stage order within a run: a run_full_pipeline call goes through
\* the registry sync and then the audio, transcription, concept and clip
\* loops, in this order and each once; each loop's working set is what the
\* store holds at the loop's status when the loop starts, so an item advanced
\* by one stage is taken by the next stage of the same run; and no stage
\* processor is invoked twice for the same item in one run.
C21_FixedStageOrder ==
    /\ [][StageOrderStep /\ ListsFromStore]_vars
    /\ []InvocationsOrdered
    /\ []AdvancedInSameRun

\* A run that found a new file has returned: it invoked the four processors
\* for the item, one after the other, and the item is completed.
C21_Witness ==
    \E o \in Orchestrators, p \in Paths :
        /\ orch[o].pc = "done"
        /\ RowsOf(orch[o].start, p) = {}
        /\ StatusAt(videos, p) = {"completed"}
        /\ \E i, j, k, l \in DOMAIN orch[o].log :
              /\ i < j /\ j < k /\ k < l
              /\ orch[o].log[i] = Ev("extract", p, "ok")
              /\ orch[o].log[j] = Ev("transcribe", p, "ok")
              /\ orch[o].log[k] = Ev("llm", p, "ok")
              /\ orch[o].log[l] = Ev("render", p, "ok")

\* The natural keys of the occurrence rows.
OccurrenceKeys(tbl) == {<<r.word, r.source_video, r.timestamp_start>> : r \in tbl}

\* The step keeps every item path and every occurrence row (its id and key).
NothingDeleted ==
    /\ {r.file_path : r \in videos} \subseteq {r.file_path : r \in videos'}
    /\ OccurrenceKeys(idioms_stats) \subseteq OccurrenceKeys(idioms_stats')
    /\ \A r \in idioms_stats :
          \E q \in idioms_stats' : q.id = r.id /\ SameKey(q, r.word, r.source_video,
                                                          r.timestamp_start)

\* A stage loop that takes up an item whose file is gone from the watched
\* directory ends the item's turn there: the processor fails, the loop goes
\* on to its next item without a status write, and the item's row is as it
\* was.
GoneStays ==
    \A o \in Orchestrators :
        LET me == orch[o]
        IN (/\ me.pc \in {"audio", "stt", "llm", "video"}
            /\ me.queue # <<>>
            /\ files[Head(me.queue).file_path] = Absent
            /\ orch'[o] # me
            /\ crashes' = crashes)
           => /\ orch'[o].pc = me.pc
              /\ orch'[o].queue = Tail(me.queue)
              /\ RowsOf(videos', Head(me.queue).file_path)
                   = RowsOf(videos, Head(me.queue).file_path)

\* C22. No deletion by the core: every step of a registry sync or a pipeline
\* run keeps every item path and every occurrence row; an item whose file has
\* disappeared from the watched directory keeps its record, and if it is not
\* completed it stays at the status it has (its stage processor fails).
C22_NoDeletion == [][NothingDeleted /\ GoneStays]_vars

\* No two rows of the table have the same path.
PathUnique == \A r1, r2 \in videos : r1.file_path = r2.file_path => r1 = r2

\* The sync of orchestrator o attempts the INSERT of a path it found no row
\* for, and the path has a row by now.
LosingInsert(o) ==
    /\ orch[o].pc = "reg_write"
    /\ ~orch[o].reg.found
    /\ RowsOf(videos, orch[o].reg.path) # {}
    /\ orch'[o] # orch[o]

\* C23. Path uniqueness under racing registrations: in every reachable state
\* of two interleaved runs the table has at most one row per path; when two
\* syncs both looked up a new path, found no row and attempt the INSERT, the
\* later INSERT is rejected and leaves the table, the winner's row included,
\* as it was.
C23_PathUniqueness ==
    /\ []PathUnique
    /\ [][\A o \in Orchestrators : LosingInsert(o) => videos' = videos]_vars

\* Both syncs found no row for the path; one INSERT was rejected, and the
\* path has one row, pending, with the fingerprint of the file.
C23_Witness ==
    \E p \in Paths, o \in Orchestrators :
        /\ \A other \in Orchestrators :
              \E reg \in orch[other].lookups : reg.path = p /\ ~reg.found
        /\ Has(o, "register_video", p, "fail")
        /\ Cardinality(RowsOf(videos, p)) = 1
        /\ \A r \in RowsOf(videos, p) :
              r.status = "pending" /\ r.file_hash = Md5(files[p])

\* C24. Artifact locators are per item: no two rows with distinct paths
\* (files of the same base name in different sub-directories included) have
\* the same audio locator, the same transcript locator or the same concepts
\* locator.
C24_LocatorsPerItem ==
    \A r1, r2 \in videos :
        r1.file_path # r2.file_path =>
            \A f \in AllowedFields : r1[f] # None => r1[f] # r2[f]

\* The pcs at which a stage loop is about to write an item's status.
WritePcs == {"audio_write", "stt_write", "llm_write", "video_record"}

\* The step is the status write of the stage orchestrator o is in.
StageWrites(o) ==
    /\ orch[o].pc \in WritePcs
    /\ orch'[o].pc # orch[o].pc
    /\ crashes' = crashes

\* The item the write is for is at the status the stage takes its items
\* from, and no row's status goes backward in the step.
WriteAtPrecondition(o) ==
    /\ \A r \in RowsOf(videos, Head(orch[o].queue).file_path) :
          WritePc(r.status) = orch[o].pc
    /\ \A r \in videos, q \in videos' :
          q.id = r.id => Rank(q.status) >= Rank(r.status)

\* C25. A stage's status write is applied only to an item that is still at
\* the stage's precondition status at the moment of the write: in every
\* interleaving of two runs, the write a stage makes for an item of the
\* working set it listed earlier finds the item at the status the stage takes
\* its items from, and moves no item's status backward.
C25_WriteAtPrecondition ==
    [][\A o \in Orchestrators : StageWrites(o) => WriteAtPrecondition(o)]_vars

\* The index range of the b-th batch (b from 1) of a transcript of n segments.
BatchRange(n, b) ==
    {k \in 0..(n - 1) : (b - 1) * BatchSize <= k /\ k < b * BatchSize}

\* The (word, index) pairs of a list of idioms, in order.
Labels(idioms) == [k \in DOMAIN idioms |-> <<idioms[k].word, idioms[k].index>>]

\* C26. Time-offset attachment in concept extraction: process_segments splits
\* the segments into consecutive batches of BatchSize; every concept it
\* returns has an index inside the range of the batch it was recognized in and
\* the start and end of the segment at that index; the concepts returned for a
\* batch are, in the model's order, those of the batch's answer whose index is
\* given and lies in the batch's range (none for a failed batch); and the
\* result lists the batches' concepts in batch order.
C26_TimeOffsetAttachment ==
    api.op = "process_segments" =>
        LET segs == api.segments
            n == Len(segs)
            res == api.result
            BatchOf(e) == (e.index \div BatchSize) + 1
        IN /\ \A k \in DOMAIN res :
                 /\ res[k].index \in 0..(n - 1)
                 /\ res[k].start = segs[res[k].index + 1].start
                 /\ res[k].end = segs[res[k].index + 1].end
           /\ \A j, k \in DOMAIN res : j < k => BatchOf(res[j]) <= BatchOf(res[k])
           /\ \A b \in 1..NumBatches(n) :
                 LET FromBatch(e) == e.index \in BatchRange(n, b)
                     InRange(a) == a.index # None /\ a.index[1] \in BatchRange(n, b)
                     kept == SelectSeq(api.answers[b].items, InRange)
                 IN Labels(SelectSeq(res, FromBatch)) =
                       IF api.answers[b].ok
                       THEN [k \in DOMAIN kept |-> <<kept[k].word, kept[k].index[1]>>]
                       ELSE <<>>
           /\ DOMAIN api.answers = 1..((n + BatchSize - 1) \div BatchSize)

\* A call on a transcript of two batches: the first answer names a segment of
\* the second batch and a segment of its own, the second an idiom without
\* index and one of its own; the result is the two concepts in range, with
\* the times of their segments.
C26_Witness ==
    /\ api.op = "process_segments"
    /\ Len(api.segments) = MaxSegments
    /\ api.answers[1] = [ok |-> TRUE, items |-> <<Item("w1", <<BatchSize>>), Item("w2", <<1>>)>>]
    /\ api.answers[2] = [ok |-> TRUE, items |-> <<Item("w1", None), Item("w1", <<BatchSize>>)>>]
    /\ Labels(api.result) = <<<<"w2", 1>>, <<"w1", BatchSize>>>>
    /\ api.result[1].start = api.segments[2].start
    /\ api.result[2].end = api.segments[BatchSize + 1].end

====
